---- MODULE Spec2Model ----
(***************************************************************************)
(* Face-lattice bookkeeping and boundary operators of TopoNetX:            *)
(*   toponetx/classes/path_complex.py        (PathComplex)                 *)
(*   toponetx/classes/simplicial_complex.py  (SimplicialComplex)           *)
(*                                                                         *)
(* Node identifiers are Python hashables.  An int node n is the number n.  *)
(* A str node whose text is the decimal numeral of n is StrObj(n); it is   *)
(* a different object from the int n (1 != "1") with the same str().       *)
(* A Python str is modelled as the sequence of its digits, a tuple as a    *)
(* sequence, a dict as the sequence of its entries in insertion order.     *)
(***************************************************************************)
EXTENDS Integers, Sequences, FiniteSets, TLC

VARIABLES
    pc,             \* the PathComplex instance under test
    pc2,            \* a second PathComplex instance
    sc,             \* the SimplicialComplex instance under test
    removed_paths,  \* remove_nodes: paths collected and not yet deleted
    todo,           \* add_path calls still to be made on pc and on pc2
    last,           \* the call made last: operation, arguments, state before, outcome
    nops            \* number of calls made so far

vars == <<pc, pc2, sc, removed_paths, todo, last, nops>>

(***************************************************************************)
(* Bounds of the model.                                                    *)
(***************************************************************************)
MaxLen == 3         \* longest sequence handed to add_path
MaxOps == 2         \* calls per behaviour
MaxAttrOps == 3     \* calls per behaviour while the complex is over AttrNodes
MaxHeteroOps == 2   \* calls per behaviour over mixed int/str nodes
MaxOrderPaths == 2  \* paths inserted into both instances in two orders
MaxCloneOps == 2    \* calls before clone
MaxAnyOps == 2      \* add_path calls with any sequence, duplicates included
MaxSimplices == 3   \* simplices in the list handed to SimplicialComplex(...)
MaxGraphRank == 3   \* largest max_rank handed to PathComplex(graph, max_rank=...)
MaxOperatorOps == 1 \* add_path / add_simplex calls before the operator calls
MaxCycleOps == 6    \* add_simplex calls that build the cycle graph
MaxAllowedOps == 1  \* calls after PathComplex(paths, allowed_paths=...)
MaxAdjacencyOps == 2 \* add_path or add_simplex calls before the adjacency matrices
MaxPathsFrom == 2    \* paths in the list handed to add_paths_from
MaxPathsFromOps == 2 \* add_paths_from calls per behaviour

StrObj(n) == 1000 + n
IsStrObj(x) == x >= StrObj(0)

Nodes == {1, 2, 10}
HeteroNodes == {1, 2, 10, StrObj(10)}
SimplexNodes == 0 .. 3

None == <<>>
EmptyAttr == [k \in {} |-> 0]
\* keyword attributes handed to add_path
KeywordAttrs == {[w |-> 1], [w |-> 2, c |-> 1]}
\* the nodes of the paths that are given keyword attributes
AttrNodes == {2, 10}

Ranks == -3 .. 4

(***************************************************************************)
(* Python built-ins used by the code.                                      *)
(***************************************************************************)
RECURSIVE Digits(_)
Digits(n) == IF n < 10 THEN <<n>> ELSE Append(Digits(n \div 10), n % 10)

\* str(x): the decimal numeral of an int, the text itself of a str object.
str(x) == IF IsStrObj(x) THEN Digits(x - StrObj(0)) ELSE Digits(x)

\* s < t on Python str (digit texts): lexicographic by code point, a proper
\* prefix is smaller.
RECURSIVE StrLess(_, _)
StrLess(s, t) ==
    IF s = <<>> THEN t # <<>>
    ELSE IF t = <<>> THEN FALSE
    ELSE IF Head(s) < Head(t) THEN TRUE
    ELSE IF Head(t) < Head(s) THEN FALSE
    ELSE StrLess(Tail(s), Tail(t))

StrGreater(s, t) == StrLess(t, s)

\* tuple(map(str, x))
StrTuple(x) == [i \in DOMAIN x |-> str(x[i])]

\* a < b on tuples of str: lexicographic by item.
RECURSIVE StrTupleLess(_, _)
StrTupleLess(a, b) ==
    IF a = <<>> THEN b # <<>>
    ELSE IF b = <<>> THEN FALSE
    ELSE IF StrLess(Head(a), Head(b)) THEN TRUE
    ELSE IF StrLess(Head(b), Head(a)) THEN FALSE
    ELSE StrTupleLess(Tail(a), Tail(b))

\* a < b on tuples of int: lexicographic by item.
RECURSIVE IntTupleLess(_, _)
IntTupleLess(a, b) ==
    IF a = <<>> THEN b # <<>>
    ELSE IF b = <<>> THEN FALSE
    ELSE IF Head(a) < Head(b) THEN TRUE
    ELSE IF Head(b) < Head(a) THEN FALSE
    ELSE IntTupleLess(Tail(a), Tail(b))

\* key(a) < key(b) for the sort key lambda x: tuple(map(str, x))
PathKeyLess(a, b) == StrTupleLess(StrTuple(a), StrTuple(b))

Reverse(s) == [i \in 1 .. Len(s) |-> s[Len(s) + 1 - i]]
SetOf(s) == {s[i] : i \in DOMAIN s}

\* sorted(seq, key=lambda x: tuple(map(str, x))): stable, paths whose keys
\* are equal keep the order they have in seq.
SortedByStrKey(seq) ==
    LET pos(i) == 1 + Cardinality({j \in DOMAIN seq :
                        \/ PathKeyLess(seq[j], seq[i])
                        \/ (~PathKeyLess(seq[i], seq[j]) /\ j < i)})
    IN  [k \in DOMAIN seq |-> seq[CHOOSE i \in DOMAIN seq : pos(i) = k]]

\* sorted(seq) on tuples of int
SortedTuples(seq) ==
    LET pos(i) == 1 + Cardinality({j \in DOMAIN seq :
                        \/ IntTupleLess(seq[j], seq[i])
                        \/ (~IntTupleLess(seq[i], seq[j]) /\ j < i)})
    IN  [k \in DOMAIN seq |-> seq[CHOOSE i \in DOMAIN seq : pos(i) = k]]

RECURSIVE SumSeq(_)
SumSeq(s) == IF s = <<>> THEN 0 ELSE Head(s) + SumSeq(Tail(s))

\* (-1) ** i
MinusOnePow(i) == IF i % 2 = 0 THEN 1 ELSE -1

Abs(x) == IF x < 0 THEN -x ELSE x

(***************************************************************************)
(* dict helpers: a dict is a sequence of entries [path, attr].             *)
(***************************************************************************)
Keys(bucket) == [i \in DOMAIN bucket |-> bucket[i].path]
KeySet(bucket) == {bucket[i].path : i \in DOMAIN bucket}
HasKey(bucket, path) == path \in KeySet(bucket)
IndexOfKey(bucket, path) == CHOOSE i \in DOMAIN bucket : bucket[i].path = path
GetAttr(bucket, path) == bucket[IndexOfKey(bucket, path)].attr
\* a variant that assigns the store, dict[path] = attr, instead of merging
UpdateAttr_assign(bucket, path, attr) ==
    [bucket EXCEPT ![IndexOfKey(bucket, path)].attr = attr]

\* dict[path].update(attr)
UpdateAttr(bucket, path, attr) ==
    [bucket EXCEPT ![IndexOfKey(bucket, path)].attr = attr @@ @]
\* del dict[path]
DelKey(bucket, path) ==
    LET k == IndexOfKey(bucket, path)
    IN  SubSeq(bucket, 1, k - 1) \o SubSeq(bucket, k + 1, Len(bucket))

(***************************************************************************)
(* PathComplex.  An instance is the record                                 *)
(*   faces_dict   : _path_set.faces_dict, one dict per rank (rank r at     *)
(*                  position r + 1)                                        *)
(*   max_dim      : _path_set.max_dim                                      *)
(*   allowed_paths: _allowed_paths                                         *)
(*   reserve_sequence_order : _reserve_sequence_order                      *)
(* A call returns [self |-> the instance afterwards, raised |-> whether    *)
(* it raised].                                                             *)
(***************************************************************************)
\* PathView(): no rank dict yet, max_dim = -1.
PathView == [faces_dict |-> <<>>, max_dim |-> -1]

\* PathComplex(reserve_sequence_order=reserve), paths=None, allowed_paths=None
PathComplex(reserve) ==
    [faces_dict             |-> PathView.faces_dict,
     max_dim                |-> PathView.max_dim,
     allowed_paths          |-> {},
     reserve_sequence_order |-> reserve]

\* chain.from_iterable(self._path_set.faces_dict): every stored path.
AllPaths(self) ==
    UNION {KeySet(self.faces_dict[r]) : r \in DOMAIN self.faces_dict}

_update_faces_dict_length(faces_dict, path) ==
    IF Len(path) > Len(faces_dict)
    THEN faces_dict \o [k \in 1 .. (Len(path) - Len(faces_dict)) |-> <<>>]
    ELSE faces_dict

\* a variant that stores the path and returns None also when it is new
_update_faces_dict_entry_returning_none(faces_dict, path) ==
    LET dim == Len(path) - 1
    IN  IF ~HasKey(faces_dict[dim + 1], path)
        THEN [faces_dict |-> [faces_dict EXCEPT ![dim + 1] =
                                 Append(@, [path |-> path, attr |-> EmptyAttr])],
              ret |-> None]
        ELSE [faces_dict |-> faces_dict, ret |-> None]

\* returns the dicts afterwards and the path when it is new, else None
_update_faces_dict_entry(faces_dict, path) ==
    LET dim == Len(path) - 1
    IN  IF ~HasKey(faces_dict[dim + 1], path)
        THEN [faces_dict |-> [faces_dict EXCEPT ![dim + 1] =
                                 Append(@, [path |-> path, attr |-> EmptyAttr])],
              ret |-> path]
        ELSE [faces_dict |-> faces_dict, ret |-> None]

\* a variant without the duplicate check
add_path_invalid_direction_only(self, path) ==
    /\ Len(path) > 1
    /\ StrGreater(str(path[1]), str(path[Len(path)]))
    /\ ~self.reserve_sequence_order

\* the checks of add_path on a list or tuple
add_path_invalid(self, path) ==
    \/ Len(path) # Cardinality(SetOf(path))
    \/ /\ Len(path) > 1
       /\ StrGreater(str(path[1]), str(path[Len(path)]))
       /\ ~self.reserve_sequence_order

\* path_[i : i + length], reversed when its first node's str is the greater
sub_path_of(self, path_, i, length) ==
    LET sub_path == SubSeq(path_, i + 1, i + length)
    IN  IF ~self.reserve_sequence_order
           /\ StrGreater(str(sub_path[1]), str(sub_path[Len(sub_path)]))
        THEN Reverse(sub_path)
        ELSE sub_path

\* the two nested loops of add_path, from position (length, i) on
RECURSIVE add_path_loop(_, _, _, _, _)
add_path_loop(self, new_paths, path_, length, i) ==
    IF length = 0 THEN [self |-> self, new_paths |-> new_paths]
    ELSE IF i > Len(path_) - length
         THEN add_path_loop(self, new_paths, path_, length - 1, 0)
         ELSE LET e == _update_faces_dict_entry(self.faces_dict,
                                                sub_path_of(self, path_, i, length))
              IN  add_path_loop([self EXCEPT !.faces_dict = e.faces_dict],
                                IF e.ret # None THEN new_paths \cup {e.ret}
                                                ELSE new_paths,
                                path_, length, i + 1)

add_path(self, path, attr) ==
    IF add_path_invalid(self, path) THEN [self |-> self, raised |-> TRUE]
    ELSE
    LET path_ == path
        s1 == [self EXCEPT !.faces_dict = _update_faces_dict_length(@, path_)]
        s2 == IF s1.max_dim < Len(path_) - 1
              THEN [s1 EXCEPT !.max_dim = Len(path_) - 1]
              ELSE s1
    IN  IF HasKey(s2.faces_dict[Len(path_)], path_)
        THEN [self |-> [s2 EXCEPT !.faces_dict[Len(path_)] =
                                      UpdateAttr(@, path_, attr)],
              raised |-> FALSE]
        ELSE LET done == add_path_loop(s2, {}, path_, Len(path_), 0)
                 s3 == [done.self EXCEPT !.allowed_paths = @ \cup done.new_paths]
             IN  IF HasKey(s3.faces_dict[Len(path_)], path_)
                 THEN [self |-> [s3 EXCEPT !.faces_dict[Len(path_)] =
                                               UpdateAttr(@, path_, attr)],
                       raised |-> FALSE]
                 ELSE [self |-> s3, raised |-> TRUE]

\* a variant that collects with all(...) in place of any(...)
collect_removed_paths_all(self, node_set) ==
    {path \in AllPaths(self) : \A node \in node_set : node \in SetOf(path)}

\* the paths remove_nodes collects
collect_removed_paths(self, node_set) ==
    {path \in AllPaths(self) : \E node \in node_set : node \in SetOf(path)}

\* a variant that leaves max_dim as it is
_remove_path_keeps_max_dim(self, path) ==
    LET rank == Len(path) - 1
        s1 == [self EXCEPT !.faces_dict[rank + 1] = DelKey(@, path)]
    IN  IF path \notin s1.allowed_paths
        THEN [self |-> s1, raised |-> TRUE]
        ELSE [self |-> [s1 EXCEPT !.allowed_paths = @ \ {path}], raised |-> FALSE]

_remove_path(self, path) ==
    LET rank == Len(path) - 1
        s1 == [self EXCEPT !.faces_dict[rank + 1] = DelKey(@, path)]
    IN  IF path \notin s1.allowed_paths
        THEN [self |-> s1, raised |-> TRUE]
        ELSE LET s2 == [s1 EXCEPT !.allowed_paths = @ \ {path}]
             IN  IF Len(s2.faces_dict[rank + 1]) = 0 /\ s2.max_dim = rank
                 THEN [self |-> [s2 EXCEPT !.max_dim = @ - 1], raised |-> FALSE]
                 ELSE [self |-> s2, raised |-> FALSE]

dim(self) == self.max_dim

\* shape: the number of paths of every rank
shape(self) == [r \in DOMAIN self.faces_dict |-> Len(self.faces_dict[r])]

\* returns [raised, val]
skeleton(self, rank) ==
    IF rank < Len(self.faces_dict) /\ rank >= 0
    THEN [raised |-> FALSE,
          val |-> SortedByStrKey(Keys(self.faces_dict[rank + 1]))]
    ELSE [raised |-> TRUE, val |-> <<>>]

(***************************************************************************)
(* Sparse matrices: [nrows, ncols, entry], entry[<<r, c>>] for 0-based r   *)
(* and c.  Entries given twice to coo_matrix are summed.                   *)
(***************************************************************************)
Cells(nrows, ncols) == (0 .. nrows - 1) \X (0 .. ncols - 1)

ZeroMatrix(nrows, ncols) ==
    [nrows |-> nrows, ncols |-> ncols, entry |-> [rc \in Cells(nrows, ncols) |-> 0]]

\* A.T
Transpose(A) ==
    [nrows |-> A.ncols, ncols |-> A.nrows,
     entry |-> [rc \in Cells(A.ncols, A.nrows) |-> A.entry[<<rc[2], rc[1]>>]]]

\* A itself; comparing the entries makes TLC enumerate them once instead of
\* evaluating the defining expression at every application
Evaluated(A) == IF A.entry = A.entry THEN A ELSE A

\* A @ B
MatMul(A, B) ==
    LET a == Evaluated(A)
        b == Evaluated(B)
    IN  Evaluated(
        [nrows |-> a.nrows, ncols |-> b.ncols,
         entry |-> [rc \in Cells(a.nrows, b.ncols) |->
                      SumSeq([k \in 1 .. a.ncols |->
                                a.entry[<<rc[1], k - 1>>] * b.entry[<<k - 1, rc[2]>>]])]])

\* abs(A)
MatAbs(A) == [A EXCEPT !.entry = [rc \in DOMAIN @ |-> Abs(@[rc])]]

IsZeroMatrix(A) == \A rc \in DOMAIN A.entry : A.entry[rc] = 0

\* {item: i for i, item in enumerate(seq)}
Enumerate(seq) ==
    [item \in SetOf(seq) |-> (CHOOSE k \in DOMAIN seq : seq[k] = item) - 1]

Raised == [raised |-> TRUE]

\* A + B
MatAdd(A, B) ==
    [nrows |-> A.nrows, ncols |-> A.ncols,
     entry |-> [rc \in DOMAIN A.entry |-> A.entry[rc] + B.entry[rc]]]

\* the n x n identity
Identity(n) ==
    [nrows |-> n, ncols |-> n,
     entry |-> [rc \in Cells(n, n) |-> IF rc[1] = rc[2] THEN 1 ELSE 0]]

\* A.setdiag(0)
SetDiagZero(A) ==
    [A EXCEPT !.entry = [rc \in DOMAIN @ |-> IF rc[1] = rc[2] THEN 0 ELSE @[rc]]]

\* np.power(A, k) on a square scipy sparse matrix: the k-th matrix power,
\* the identity for k = 0
RECURSIVE MatPower(_, _)
MatPower(A, k) == IF k = 0 THEN Identity(A.nrows) ELSE MatMul(MatPower(A, k - 1), A)

(***************************************************************************)
(* PathComplex.incidence_matrix                                            *)
(***************************************************************************)
\* path[0:i] + path[(i + 1):], reversed when its first node's str is the greater
boundary_path_of(self, path, i) ==
    LET boundary_path == SubSeq(path, 1, i) \o SubSeq(path, i + 2, Len(path))
    IN  IF ~self.reserve_sequence_order
           /\ StrGreater(str(boundary_path[1]), str(boundary_path[Len(boundary_path)]))
        THEN Reverse(boundary_path)
        ELSE boundary_path

\* values.append((-1) ** i)
path_boundary_value(i) == MinusOnePow(i)

\* self.nodes: NodeView(self._path_set.faces_dict), the paths of rank 0
NodeView(self) == Keys(self.faces_dict[1])

\* returns [raised] or [raised, row_index, col_index, matrix]; the index maps
\* are None when index is False.  At rank 0 the matrix has one column per
\* node and its row index is {}; its node index is built over NodeView and
\* is left as None.
incidence_matrix(self, rank, signed, index) ==
    IF rank < 0 THEN Raised
    ELSE IF rank > dim(self) THEN Raised
    ELSE IF rank = 0
    THEN LET nodes == NodeView(self)
         IN  [raised    |-> FALSE,
              row_index |-> IF index THEN Enumerate(<<>>) ELSE None,
              col_index |-> None,
              matrix    |-> MatAbs(ZeroMatrix(0, Len(nodes)))]
    ELSE
    LET sk_minus_1 == skeleton(self, rank - 1).val
        sk == skeleton(self, rank).val
        path_minus_1_dict == Enumerate(sk_minus_1)
        path_dict == Enumerate(sk)
        \* the positions i of path whose boundary path is allowed
        allowed_at(path) ==
            {i \in 0 .. Len(path) - 1 : boundary_path_of(self, path, i) \in self.allowed_paths}
        key_error ==
            \E path \in DOMAIN path_dict : \E i \in allowed_at(path) :
                boundary_path_of(self, path, i) \notin DOMAIN path_minus_1_dict
        value_at(r, path) ==
            SumSeq([k \in 1 .. Len(path) |->
                      IF /\ (k - 1) \in allowed_at(path)
                         /\ path_minus_1_dict[boundary_path_of(self, path, k - 1)] = r
                      THEN path_boundary_value(k - 1) ELSE 0])
        boundary ==
            [nrows |-> Len(sk_minus_1), ncols |-> Len(sk),
             entry |-> [rc \in Cells(Len(sk_minus_1), Len(sk)) |->
                          value_at(rc[1], sk[rc[2] + 1])]]
    IN  IF key_error THEN Raised
        ELSE [raised    |-> FALSE,
              row_index |-> IF index THEN path_minus_1_dict ELSE None,
              col_index |-> IF index THEN path_dict ELSE None,
              matrix    |-> IF signed THEN boundary ELSE MatAbs(boundary)]

(***************************************************************************)
(* What the matrix methods of both classes do with the result of the call  *)
(* they start with: inc is what incidence_matrix returned, lap what a      *)
(* Laplacian method returned.                                              *)
(***************************************************************************)
\* inc with its matrix transposed
transposed(inc) ==
    IF inc.raised THEN Raised ELSE [inc EXCEPT !.matrix = Transpose(@)]

\* B @ B.T, with the index of the rows of B
up_laplacian_of(inc, signed, index) ==
    IF inc.raised THEN Raised
    ELSE [raised |-> FALSE,
          index  |-> IF index THEN inc.row_index ELSE None,
          matrix |-> IF signed THEN MatMul(inc.matrix, Transpose(inc.matrix))
                     ELSE MatAbs(MatMul(inc.matrix, Transpose(inc.matrix)))]

\* B.T @ B, with the index of the rows of B (PathComplex returns row)
down_laplacian_of(inc, signed, index) ==
    IF inc.raised THEN Raised
    ELSE [raised |-> FALSE,
          index  |-> IF index THEN inc.row_index ELSE None,
          matrix |-> IF signed THEN MatMul(Transpose(inc.matrix), inc.matrix)
                     ELSE MatAbs(MatMul(Transpose(inc.matrix), inc.matrix))]

\* B.T @ B, with the index of the columns of B (SimplicialComplex returns
\* column)
sc_down_laplacian_of(inc, signed, index) ==
    IF inc.raised THEN Raised
    ELSE [raised |-> FALSE,
          index  |-> IF index THEN inc.col_index ELSE None,
          matrix |-> IF signed THEN MatMul(Transpose(inc.matrix), inc.matrix)
                     ELSE MatAbs(MatMul(Transpose(inc.matrix), inc.matrix))]

\* a variant that leaves the diagonal as it is
diagonal_kept(lap, signed, index) ==
    IF lap.raised THEN Raised
    ELSE [raised |-> FALSE,
          index  |-> IF index THEN lap.index ELSE None,
          matrix |-> IF signed THEN lap.matrix ELSE MatAbs(lap.matrix)]

\* lap.setdiag(0), then abs unless signed
diagonal_zeroed(lap, signed, index) ==
    IF lap.raised THEN Raised
    ELSE [raised |-> FALSE,
          index  |-> IF index THEN lap.index ELSE None,
          matrix |-> IF signed THEN SetDiagZero(lap.matrix)
                     ELSE MatAbs(SetDiagZero(lap.matrix))]

(***************************************************************************)
(* PathComplex: coincidence and Laplacian matrices.  They return [raised]  *)
(* or [raised, index, matrix] ([raised, row_index, col_index, matrix] for  *)
(* coincidence_matrix).                                                    *)
(***************************************************************************)
coincidence_matrix(self, rank, signed, index) ==
    transposed(incidence_matrix(self, rank, signed, index))

\* a variant that clears the diagonal, as adjacency_matrix does
up_laplacian_matrix_setdiag(self, rank, signed, index) ==
    IF rank = 0 \/ rank < dim(self)
    THEN LET inc == incidence_matrix(self, rank + 1, TRUE, TRUE)
         IN  IF inc.raised THEN Raised
             ELSE LET L_up == SetDiagZero(MatMul(inc.matrix, Transpose(inc.matrix)))
                  IN  [raised |-> FALSE,
                       index  |-> IF index THEN inc.row_index ELSE None,
                       matrix |-> IF signed THEN L_up ELSE MatAbs(L_up)]
    ELSE Raised

up_laplacian_matrix(self, rank, signed, index) ==
    IF rank = 0 \/ rank < dim(self)
    THEN up_laplacian_of(incidence_matrix(self, rank + 1, TRUE, TRUE), signed, index)
    ELSE Raised

\* a variant that multiplies in the order of the up Laplacian, B @ B.T
down_laplacian_matrix_swapped(self, rank, signed, index) ==
    IF rank <= dim(self) /\ rank > 0
    THEN LET inc == incidence_matrix(self, rank, TRUE, TRUE)
         IN  IF inc.raised THEN Raised
             ELSE LET L_down == MatMul(inc.matrix, Transpose(inc.matrix))
                  IN  [raised |-> FALSE,
                       index  |-> IF index THEN inc.row_index ELSE None,
                       matrix |-> IF signed THEN L_down ELSE MatAbs(L_down)]
    ELSE Raised

down_laplacian_matrix(self, rank, signed, index) ==
    IF rank <= dim(self) /\ rank > 0
    THEN down_laplacian_of(incidence_matrix(self, rank, TRUE, TRUE), signed, index)
    ELSE Raised

\* PathComplex.adjacency_matrix; signed defaults to False
adjacency_matrix(self, rank, signed, index) ==
    diagonal_zeroed(up_laplacian_matrix(self, rank, signed, TRUE), signed, index)

\* PathComplex.coadjacency_matrix; signed defaults to False
coadjacency_matrix(self, rank, signed, index) ==
    diagonal_zeroed(down_laplacian_matrix(self, rank, signed, TRUE), signed, index)

(***************************************************************************)
(* SimplicialComplex.  An instance is the record                           *)
(*   faces_dict : _simplex_set.faces_dict, one set of frozensets per rank  *)
(*   max_dim    : _simplex_set.max_dim                                     *)
(* Nodes are ints below 8, so that tuple(frozenset) lists them ascending.  *)
(***************************************************************************)
SimplexView == [faces_dict |-> <<>>, max_dim |-> -1]

SimplicialComplex == SimplexView

\* tuple(frozenset): the nodes in ascending order
RECURSIVE TupleOf(_)
TupleOf(simplex) ==
    IF simplex = {} THEN <<>>
    ELSE LET m == CHOOSE x \in simplex : \A y \in simplex : x <= y
         IN  <<m>> \o TupleOf(simplex \ {m})

\* SimplexView.insert_simplex: a simplex that is present changes nothing;
\* otherwise every non-empty subset is inserted at its rank, the list of
\* rank dicts grows as needed and max_dim follows.
insert_simplex(self, simplex) ==
    LET rank == Cardinality(simplex) - 1
        grown == IF rank + 1 > Len(self.faces_dict)
                 THEN self.faces_dict \o [k \in 1 .. (rank + 1 - Len(self.faces_dict)) |-> {}]
                 ELSE self.faces_dict
    IN  IF rank + 1 <= Len(self.faces_dict) /\ simplex \in self.faces_dict[rank + 1]
        THEN self
        ELSE [faces_dict |-> [r \in DOMAIN grown |->
                                grown[r] \cup {face \in SUBSET simplex : Cardinality(face) = r}],
              max_dim |-> IF self.max_dim < rank THEN rank ELSE self.max_dim]

add_simplex(self, simplex) == insert_simplex(self, simplex)

\* SimplexView.add_simplices_from(simplices): every simplex of the list is
\* inserted
RECURSIVE add_simplices_from(_, _)
add_simplices_from(self, simplices) ==
    IF simplices = <<>> THEN self
    ELSE add_simplices_from(insert_simplex(self, Head(simplices)), Tail(simplices))

\* SimplicialComplex(simplices) for a list of simplices, mode "normal"
SimplicialComplex_init(simplices) == add_simplices_from(SimplicialComplex, simplices)

\* a variant that counts the ranks below dim only
sc_shape_below_dim(self) ==
    IF Len(self.faces_dict) = 0 THEN None
    ELSE [i \in 1 .. self.max_dim |-> Cardinality(self.faces_dict[i])]

\* None (after a print) for the empty complex, else the number of simplices
\* of every rank
sc_shape(self) ==
    IF Len(self.faces_dict) = 0 THEN None
    ELSE [i \in 1 .. Len(self.faces_dict) |-> Cardinality(self.faces_dict[i])]

sc_dim(self) == self.max_dim

\* (tuple(i) for i in bucket.keys())
RECURSIVE TuplesOf(_)
TuplesOf(bucket) ==
    IF bucket = {} THEN <<>>
    ELSE LET f == CHOOSE f \in bucket : TRUE
         IN  <<TupleOf(f)>> \o TuplesOf(bucket \ {f})

\* list[rank] of Python: a negative rank counts from the end of the list
ListItem(list, rank) ==
    IF rank >= 0 THEN list[rank + 1] ELSE list[Len(list) + rank + 1]

\* returns [raised, val]; rank below -len(faces_dict) is an IndexError
sc_skeleton(self, rank) ==
    IF rank < Len(self.faces_dict)
    THEN IF rank >= -Len(self.faces_dict)
         THEN [raised |-> FALSE,
               val |-> SortedTuples(TuplesOf(ListItem(self.faces_dict, rank)))]
         ELSE [raised |-> TRUE, val |-> <<>>]
    ELSE [raised |-> TRUE, val |-> <<>>]

\* a variant without the alternating sign
simplex_boundary_value_unsigned(i) == 1

\* values.append((-1) ** i)
simplex_boundary_value(i) == MinusOnePow(i)

\* returns [raised] or [raised, row_index, col_index, matrix]; with index the
\* index lists are the keys of the two index dicts, else None
sc_incidence_matrix(self, rank, signed, index) ==
    IF rank <= 0 THEN Raised
    ELSE IF rank > sc_dim(self) THEN Raised
    ELSE IF rank = 0
    THEN LET n == Cardinality(self.faces_dict[rank + 1])
         IN  [raised |-> FALSE, row_index |-> None, col_index |-> None,
              matrix |-> [nrows |-> 1, ncols |-> n,
                          entry |-> [rc \in Cells(1, n) |-> 1]]]
    ELSE
    LET sk == sc_skeleton(self, rank).val
        sk_minus_1 == sc_skeleton(self, rank - 1).val
        simplex_dict_d == Enumerate(sk)
        simplex_dict_d_minus_1 == Enumerate(sk_minus_1)
        \* np.sort(list(simplex))[i]
        left_out(simplex, i) == TupleOf(SetOf(simplex))[i + 1]
        \* tuple(frozenset(simplex).difference({left_out}))
        face(simplex, i) == TupleOf(SetOf(simplex) \ {left_out(simplex, i)})
        key_error ==
            \E simplex \in DOMAIN simplex_dict_d : \E i \in 0 .. Len(simplex) - 1 :
                face(simplex, i) \notin DOMAIN simplex_dict_d_minus_1
        value_at(r, simplex) ==
            SumSeq([k \in 1 .. Len(simplex) |->
                      IF simplex_dict_d_minus_1[face(simplex, k - 1)] = r
                      THEN simplex_boundary_value(k - 1) ELSE 0])
        boundary ==
            [nrows |-> Len(sk_minus_1), ncols |-> Len(sk),
             entry |-> [rc \in Cells(Len(sk_minus_1), Len(sk)) |->
                          value_at(rc[1], sk[rc[2] + 1])]]
    IN  IF key_error THEN Raised
        ELSE [raised    |-> FALSE,
              row_index |-> IF index THEN sk_minus_1 ELSE None,
              col_index |-> IF index THEN sk ELSE None,
              matrix    |-> IF signed THEN boundary ELSE MatAbs(boundary)]

(***************************************************************************)
(* SimplicialComplex: coincidence, Laplacian, adjacency and k-hop          *)
(* matrices.  They return [raised] or [raised, index, matrix]              *)
(* ([raised, row_index, col_index, matrix] for coincidence_matrix).        *)
(***************************************************************************)
\* with index the code takes .T of the tuple incidence_matrix returns, which
\* is an AttributeError
sc_coincidence_matrix(self, rank, signed, index) ==
    IF index THEN Raised
    ELSE transposed(sc_incidence_matrix(self, rank, signed, index))

sc_up_laplacian_matrix(self, rank, signed, index) ==
    IF rank = 0 \/ rank < sc_dim(self)
    THEN up_laplacian_of(sc_incidence_matrix(self, rank + 1, TRUE, TRUE), signed, index)
    ELSE Raised

sc_down_laplacian_matrix(self, rank, signed, index) ==
    IF rank <= sc_dim(self) /\ rank > 0
    THEN sc_down_laplacian_of(sc_incidence_matrix(self, rank, TRUE, TRUE), signed, index)
    ELSE Raised

sc_hodge_laplacian_matrix(self, rank, signed, index) ==
    IF rank = 0
    THEN LET inc_next == sc_incidence_matrix(self, rank + 1, TRUE, TRUE)
         IN  IF inc_next.raised THEN Raised
             ELSE LET lap == MatMul(inc_next.matrix, Transpose(inc_next.matrix))
                  IN  [raised |-> FALSE,
                       index  |-> IF index THEN inc_next.row_index ELSE None,
                       matrix |-> IF signed THEN lap ELSE MatAbs(lap)]
    ELSE IF rank < sc_dim(self)
    THEN LET inc_next == sc_incidence_matrix(self, rank + 1, TRUE, TRUE)
             inc == sc_incidence_matrix(self, rank, TRUE, TRUE)
         IN  IF inc_next.raised \/ inc.raised THEN Raised
             ELSE LET lap == MatAdd(MatMul(inc_next.matrix, Transpose(inc_next.matrix)),
                                    MatMul(Transpose(inc.matrix), inc.matrix))
                  IN  [raised |-> FALSE,
                       index  |-> IF index THEN inc.col_index ELSE None,
                       matrix |-> IF signed THEN lap ELSE MatAbs(lap)]
    ELSE IF rank = sc_dim(self)
    THEN LET inc == sc_incidence_matrix(self, rank, TRUE, TRUE)
         IN  IF inc.raised THEN Raised
             ELSE LET lap == MatMul(Transpose(inc.matrix), inc.matrix)
                  IN  [raised |-> FALSE,
                       index  |-> IF index THEN inc.col_index ELSE None,
                       matrix |-> IF signed THEN lap ELSE MatAbs(lap)]
    ELSE Raised

sc_adjacency_matrix(self, rank, signed, index) ==
    diagonal_zeroed(sc_up_laplacian_matrix(self, rank, signed, TRUE), signed, index)

sc_coadjacency_matrix(self, rank, signed, index) ==
    diagonal_zeroed(sc_down_laplacian_matrix(self, rank, signed, TRUE), signed, index)

\* returns [raised] or [raised, matrix]
k_hop_incidence_matrix(self, rank, k) ==
    LET inc == sc_incidence_matrix(self, rank, TRUE, FALSE)
        adj == sc_adjacency_matrix(self, rank, TRUE, FALSE)
        coadj == sc_coadjacency_matrix(self, rank, TRUE, FALSE)
    IN  IF inc.raised THEN Raised
        ELSE IF rank < sc_dim(self) /\ rank >= 0 /\ adj.raised THEN Raised
        ELSE IF rank <= sc_dim(self) /\ rank > 0 /\ coadj.raised THEN Raised
        ELSE IF rank = sc_dim(self)
        THEN [raised |-> FALSE, matrix |-> MatMul(inc.matrix, MatPower(coadj.matrix, k))]
        ELSE IF rank = 0
        THEN [raised |-> FALSE, matrix |-> MatMul(inc.matrix, MatPower(adj.matrix, k))]
        ELSE [raised |-> FALSE,
              matrix |-> MatAdd(MatMul(inc.matrix, MatPower(adj.matrix, k)),
                                MatMul(inc.matrix, MatPower(coadj.matrix, k)))]

k_hop_coincidence_matrix(self, rank, k) ==
    LET coinc == sc_coincidence_matrix(self, rank, TRUE, FALSE)
        adj == sc_adjacency_matrix(self, rank, TRUE, FALSE)
        coadj == sc_coadjacency_matrix(self, rank, TRUE, FALSE)
    IN  IF coinc.raised THEN Raised
        ELSE IF rank < sc_dim(self) /\ rank >= 0 /\ adj.raised THEN Raised
        ELSE IF rank <= sc_dim(self) /\ rank > 0 /\ coadj.raised THEN Raised
        ELSE IF rank = sc_dim(self)
        THEN [raised |-> FALSE, matrix |-> MatMul(MatPower(coadj.matrix, k), coinc.matrix)]
        ELSE IF rank = 0
        THEN [raised |-> FALSE, matrix |-> MatMul(MatPower(adj.matrix, k), coinc.matrix)]
        ELSE [raised |-> FALSE,
              matrix |-> MatAdd(MatMul(MatPower(adj.matrix, k), coinc.matrix),
                                MatMul(MatPower(coadj.matrix, k), coinc.matrix))]


(***************************************************************************)
(* SimplicialComplex.normalized_laplacian_matrix.  The floats it computes  *)
(* are kept exactly: [num, rad] stands for num / sqrt(rad), and rad = 0    *)
(* for what a division by zero gives (inf, or nan when num = 0).           *)
(***************************************************************************)
\* abs(hodge_lap).sum(axis=1)
row_sums_of_abs(A) ==
    [r \in 1 .. A.nrows |->
       SumSeq([c \in 1 .. A.ncols |-> Abs(A.entry[<<r - 1, c - 1>>])])]

\* 1.0 / np.sqrt(d) under errstate(divide="ignore")
inv_sqrt(d) == [num |-> 1, rad |-> d]

isinf(x) == x.rad = 0 /\ x.num # 0

\* a variant that leaves the infinite entries in
zero_where_inf_skipped(diags_sqrt) == diags_sqrt

\* diags_sqrt[np.isinf(diags_sqrt)] = 0
zero_where_inf(diags_sqrt) ==
    [i \in DOMAIN diags_sqrt |->
       IF isinf(diags_sqrt[i]) THEN [num |-> 0, rad |-> 1] ELSE diags_sqrt[i]]

\* the diagonal of the matrix diags_sqrt the method multiplies with
diags_sqrt_of(hodge_lap) ==
    zero_where_inf([i \in 1 .. hodge_lap.nrows |->
                      inv_sqrt(row_sums_of_abs(hodge_lap)[i])])

\* diags_sqrt @ (hodge_lap @ diags_sqrt) for the diagonal matrix of d
normalized_with(hodge_lap, d) ==
    [nrows |-> hodge_lap.nrows, ncols |-> hodge_lap.ncols,
     entry |-> [rc \in Cells(hodge_lap.nrows, hodge_lap.ncols) |->
                  [num |-> d[rc[1] + 1].num * (hodge_lap.entry[rc] * d[rc[2] + 1].num),
                   rad |-> d[rc[1] + 1].rad * d[rc[2] + 1].rad]]]

normalized_of(hodge) ==
    IF hodge.raised THEN Raised
    ELSE [raised |-> FALSE,
          matrix |-> normalized_with(Evaluated(hodge.matrix),
                                     diags_sqrt_of(Evaluated(hodge.matrix)))]

normalized_laplacian_matrix(self, rank) ==
    normalized_of(sc_hodge_laplacian_matrix(self, rank, TRUE, FALSE))
(***************************************************************************)
(* PathComplex.__init__ with a paths argument, and clone.  The argument is *)
(* a record tagged with its Python type: NoneArg, GraphArg (an nx.Graph:   *)
(* its nodes in insertion order and its undirected edges), ListArg (a list *)
(* or tuple of paths) or ViewArg (the PathView self.paths returns).  rev   *)
(* picks one of two iteration orders of a Python set.                      *)
(***************************************************************************)
NoneArg == [type |-> "NoneType"]
GraphArg(nodes, edges) == [type |-> "Graph", nodes |-> nodes, edges |-> edges]
ListArg(items) == [type |-> "list", items |-> items]
ViewArg(self) == [type |-> "PathView", faces_dict |-> self.faces_dict, max_dim |-> self.max_dim]

RECURSIVE SetToSeq(_)
SetToSeq(set) ==
    IF set = {} THEN <<>>
    ELSE LET x == CHOOSE e \in set : TRUE
         IN  <<x>> \o SetToSeq(set \ {x})

\* the order in which "for p in set" visits the elements
IterationOrder(set, rev) == IF rev THEN Reverse(SetToSeq(set)) ELSE SetToSeq(set)

\* graph.edges: every edge once, as (u, v) with u the node inserted first
GraphEdges(graph) ==
    LET n == Len(graph.nodes)
        pairs == [k \in 1 .. n * n |-> <<((k - 1) \div n) + 1, ((k - 1) % n) + 1>>]
        IsEdge(ij) == ij[1] < ij[2] /\ {graph.nodes[ij[1]], graph.nodes[ij[2]]} \in graph.edges
        chosen == SelectSeq(pairs, IsEdge)
    IN  [k \in 1 .. Len(chosen) |-> <<graph.nodes[chosen[k][1]], graph.nodes[chosen[k][2]]>>]

\* nx.all_simple_paths(graph, source, target, cutoff): the node sequences
\* without a repeated node that lead from source to target along edges and
\* have at most cutoff edges; none when cutoff < 1
all_simple_paths(graph, source, target, cutoff) ==
    IF cutoff < 1 THEN {}
    ELSE {path \in UNION {[1 .. n -> SetOf(graph.nodes)] : n \in 2 .. Len(graph.nodes)} :
            /\ Len(path) = Cardinality(SetOf(path))
            /\ Len(path) - 1 <= cutoff
            /\ path[1] = source /\ path[Len(path)] = target
            /\ \A k \in 1 .. Len(path) - 1 : {path[k], path[k + 1]} \in graph.edges}

compute_allowed_paths(graph, reserve_sequence_order, max_rank) ==
    LET all_nodes_list == {<<node>> : node \in SetOf(graph.nodes)}
        edges == GraphEdges(graph)
        all_edges_list ==
            {IF ~reserve_sequence_order /\ StrGreater(str(edges[k][1]), str(edges[k][2]))
             THEN Reverse(edges[k]) ELSE edges[k] : k \in DOMAIN edges}
        node_ls == graph.nodes
        found ==
            UNION {IF src_idx < tgt_idx
                   THEN all_simple_paths(graph, node_ls[src_idx], node_ls[tgt_idx], max_rank)
                   ELSE {} : src_idx \in DOMAIN node_ls, tgt_idx \in DOMAIN node_ls}
        all_simple ==
            {IF ~reserve_sequence_order /\ StrGreater(str(path[1]), str(path[Len(path)]))
             THEN Reverse(path) ELSE path : path \in found}
    IN  all_nodes_list \cup all_edges_list \cup all_simple

\* for p in paths: self.add_path(p), for paths in iteration order; the first
\* error ends the loop.  Returns [self, raised].
RECURSIVE add_paths_from(_, _)
add_paths_from(self, paths) ==
    IF paths = <<>> THEN [self |-> self, raised |-> FALSE]
    ELSE LET r == add_path(self, Head(paths), EmptyAttr)
         IN  IF r.raised THEN r ELSE add_paths_from(r.self, Tail(paths))

\* the (u, v) handed to add_path for the graph's edges
graph_edge_paths(graph, reserve_sequence_order) ==
    LET edges == GraphEdges(graph)
    IN  [k \in DOMAIN edges |->
           IF StrGreater(str(edges[k][1]), str(edges[k][2])) /\ ~reserve_sequence_order
           THEN Reverse(edges[k]) ELSE edges[k]]

\* the next loop of the constructor, skipped when an earlier one has raised
then_add_paths_from(r, paths) ==
    IF r.raised THEN r ELSE add_paths_from(r.self, paths)

\* self.add_paths_from(self._allowed_paths)
then_add_allowed_paths(r, rev) ==
    IF r.raised THEN r
    ELSE add_paths_from(r.self, IterationOrder(r.self.allowed_paths, rev))

\* no object is returned when the constructor has raised
Constructed(r) == IF r.raised THEN Raised ELSE r

\* PathComplex(paths, reserve_sequence_order=..., max_rank=...): returns
\* [self, raised], or [raised] when the constructor raises
\* the instance after lines 50-56: no path stored, _allowed_paths the set of
\* the allowed_paths argument, empty when the argument is None
with_allowed_paths(reserve_sequence_order, allowed_paths) ==
    [PathComplex(reserve_sequence_order) EXCEPT !.allowed_paths =
        IF allowed_paths.type = "NoneType" THEN {} ELSE SetOf(allowed_paths.items)]

__init__(paths, reserve_sequence_order, allowed_paths, max_rank, rev) ==
    IF paths.type = "Graph"
    THEN Constructed(
           then_add_allowed_paths(
             then_add_paths_from(
               then_add_paths_from(
                 [self |-> [with_allowed_paths(reserve_sequence_order, allowed_paths)
                              EXCEPT !.allowed_paths =
                                compute_allowed_paths(paths, reserve_sequence_order, max_rank)],
                  raised |-> FALSE],
                 [k \in DOMAIN paths.nodes |-> <<paths.nodes[k]>>]),
               graph_edge_paths(paths, reserve_sequence_order)),
             rev))
    ELSE IF paths.type = "list" \/ paths.type = "tuple"
    THEN IF Len(paths.items) > 0
         THEN Constructed(add_paths_from(
                            with_allowed_paths(reserve_sequence_order, allowed_paths),
                            IterationOrder(SetOf(paths.items), rev)))
         ELSE [self |-> with_allowed_paths(reserve_sequence_order, allowed_paths),
               raised |-> FALSE]
    ELSE IF paths.type # "NoneType"
    THEN Raised
    ELSE [self |-> with_allowed_paths(reserve_sequence_order, allowed_paths),
          raised |-> FALSE]

\* PathComplex(self.paths, name=self.name)
clone(self) == __init__(ViewArg(self), FALSE, NoneArg, 3, FALSE)

(***************************************************************************)
(* Operator calls.  They return [self, result]: the complex after the call *)
(* and what the call returns ([raised, ...]).  No statement of an operator *)
(* assigns to the complex, so self comes back as it went in.               *)
(***************************************************************************)
Operators ==
    {"skeleton", "incidence_matrix", "coincidence_matrix", "up_laplacian_matrix",
     "down_laplacian_matrix", "adjacency_matrix", "coadjacency_matrix"}

operator_result(self, op, rank, signed, index) ==
    CASE op = "skeleton" -> skeleton(self, rank)
      [] op = "incidence_matrix" -> incidence_matrix(self, rank, signed, index)
      [] op = "coincidence_matrix" -> coincidence_matrix(self, rank, signed, index)
      [] op = "up_laplacian_matrix" -> up_laplacian_matrix(self, rank, signed, index)
      [] op = "down_laplacian_matrix" -> down_laplacian_matrix(self, rank, signed, index)
      [] op = "adjacency_matrix" -> adjacency_matrix(self, rank, signed, index)
      [] op = "coadjacency_matrix" -> coadjacency_matrix(self, rank, signed, index)

sc_operator_result(self, op, rank, signed, index) ==
    CASE op = "skeleton" -> sc_skeleton(self, rank)
      [] op = "incidence_matrix" -> sc_incidence_matrix(self, rank, signed, index)
      [] op = "coincidence_matrix" -> sc_coincidence_matrix(self, rank, signed, index)
      [] op = "up_laplacian_matrix" -> sc_up_laplacian_matrix(self, rank, signed, index)
      [] op = "down_laplacian_matrix" -> sc_down_laplacian_matrix(self, rank, signed, index)
      [] op = "adjacency_matrix" -> sc_adjacency_matrix(self, rank, signed, index)
      [] op = "coadjacency_matrix" -> sc_coadjacency_matrix(self, rank, signed, index)

\* a variant in which skeleton sorts the dict of the rank in place
call_operator_sorting_in_place(self, op, rank, signed, index) ==
    [self   |-> IF op = "skeleton" /\ ~skeleton(self, rank).raised
                THEN [self EXCEPT !.faces_dict[rank + 1] =
                        [k \in DOMAIN @ |->
                           [path |-> skeleton(self, rank).val[k],
                            attr |-> GetAttr(@, skeleton(self, rank).val[k])]]]
                ELSE self,
     result |-> operator_result(self, op, rank, signed, index)]

call_operator(self, op, rank, signed, index) ==
    [self |-> self, result |-> operator_result(self, op, rank, signed, index)]

sc_call_operator(self, op, rank, signed, index) ==
    [self |-> self, result |-> sc_operator_result(self, op, rank, signed, index)]

(***************************************************************************)
(* Calls.  Every call is one step, except that the deletion loop of        *)
(* remove_nodes runs one _remove_path per step: it iterates a set, whose   *)
(* order is any.  No other call starts while the loop runs.                *)
(***************************************************************************)
Idle == removed_paths = {}

Call(op, arg, attr, raised, pre) ==
    [op |-> op, arg |-> arg, attr |-> attr, raised |-> raised, pre |-> pre]

\* the sequences of 1 .. maxlen nodes, duplicates and both directions included
Sequences(nodes, maxlen) == UNION {[1 .. n -> nodes] : n \in 1 .. maxlen}

\* those without a duplicate node
Inputs(nodes, maxlen) ==
    {path \in Sequences(nodes, maxlen) : Len(path) = Cardinality(SetOf(path))}

PathOps == {"add_path", "remove_nodes"}

\* pc.add_path(path, **attr)
AddPath(path, attr, limit) ==
    /\ Idle /\ nops < limit /\ last.op \in PathOps \cup {"init"}
    /\ todo = <<<<>>, <<>>>>
    /\ LET r == add_path(pc, path, attr)
       IN  /\ pc' = r.self
           /\ last' = Call("add_path", path, attr, r.raised, pc)
    /\ nops' = nops + 1
    /\ UNCHANGED <<pc2, sc, removed_paths, todo>>

\* pc.remove_nodes(node_set), up to the deletion loop
RemoveNodes(node_set, limit) ==
    /\ Idle /\ nops < limit /\ last.op \in PathOps \cup {"init"}
    /\ todo = <<<<>>, <<>>>>
    /\ removed_paths' = collect_removed_paths(pc, node_set)
    /\ last' = Call("remove_nodes", node_set, EmptyAttr, FALSE, pc)
    /\ nops' = nops + 1
    /\ UNCHANGED <<pc, pc2, sc, todo>>

\* one iteration of "for path in removed_paths: self._remove_path(path)"
RemovePath ==
    /\ ~Idle
    /\ \E path \in removed_paths :
         LET r == _remove_path(pc, path)
         IN  /\ pc' = r.self
             /\ removed_paths' = IF r.raised THEN {} ELSE removed_paths \ {path}
             /\ last' = [last EXCEPT !.raised = r.raised]
    /\ UNCHANGED <<pc2, sc, todo, nops>>

\* sc.add_simplex(simplex)
\* sc.add_simplex(simplex), one of at most max calls
AddSimplexWithin(simplex, max) ==
    /\ Idle /\ nops < max /\ last.op \in {"init", "add_simplex"}
    /\ todo = <<<<>>, <<>>>>
    /\ sc' = add_simplex(sc, simplex)
    /\ last' = Call("add_simplex", simplex, EmptyAttr, FALSE, pc)
    /\ nops' = nops + 1
    /\ UNCHANGED <<pc, pc2, removed_paths, todo>>

AddSimplex(simplex) == AddSimplexWithin(simplex, MaxOps)

\* the next add_path of the script, on pc first and then on pc2
ScriptedAddPath ==
    /\ todo # <<<<>>, <<>>>>
    /\ IF todo[1] # <<>>
       THEN /\ pc' = add_path(pc, Head(todo[1]), EmptyAttr).self
            /\ todo' = <<Tail(todo[1]), todo[2]>>
            /\ pc2' = pc2
       ELSE /\ pc2' = add_path(pc2, Head(todo[2]), EmptyAttr).self
            /\ todo' = <<todo[1], Tail(todo[2])>>
            /\ pc' = pc
    /\ last' = [last EXCEPT !.op = "script"]
    /\ UNCHANGED <<sc, removed_paths, nops>>

InitObjects ==
    /\ \E reserve \in BOOLEAN :
         /\ pc = PathComplex(reserve)
         /\ pc2 = PathComplex(reserve)
    /\ sc = SimplicialComplex
    /\ removed_paths = {}
    /\ last = Call("init", <<>>, EmptyAttr, FALSE, pc)
    /\ nops = 0

Init == InitObjects /\ todo = <<<<>>, <<>>>>

\* the nodes of the stored paths
NodesOf(self) == UNION {SetOf(path) : path \in AllPaths(self)}

Next ==
    \/ \E path \in Inputs(Nodes, MaxLen) : AddPath(path, EmptyAttr, MaxOps)
    \/ \E path \in Inputs(AttrNodes, MaxLen), attr \in KeywordAttrs :
         NodesOf(pc) \subseteq AttrNodes /\ AddPath(path, attr, MaxAttrOps)
    \/ \E node_set \in SUBSET Nodes :
         RemoveNodes(node_set, IF NodesOf(pc) \subseteq AttrNodes THEN MaxAttrOps ELSE MaxOps)
    \/ RemovePath
    \/ \E simplex \in (SUBSET SimplexNodes) \ {{}} : AddSimplex(simplex)

Spec == Init /\ [][Next]_vars

\* Nodes of mixed type: the int 10 and the str "10" have the same str().
NextHetero ==
    \/ \E path \in Inputs(HeteroNodes, MaxLen + 1) : AddPath(path, EmptyAttr, MaxHeteroOps)
    \/ \E node \in HeteroNodes : RemoveNodes({node}, MaxHeteroOps)
    \/ RemovePath

SpecHetero == Init /\ [][NextHetero]_vars

\* The same paths inserted into two instances in two orders.
Orders(paths) ==
    {seq \in [1 .. Cardinality(paths) -> paths] : SetOf(seq) = paths}

InitOrder ==
    /\ InitObjects
    /\ \E paths \in SUBSET Inputs(HeteroNodes, MaxLen - 1) :
         /\ Cardinality(paths) <= MaxOrderPaths
         /\ \A path \in paths : ~add_path_invalid(pc, path)
         /\ \E seq1 \in Orders(paths), seq2 \in Orders(paths) : todo = <<seq1, seq2>>

NextOrder == ScriptedAddPath

SpecOrder == InitOrder /\ [][NextOrder]_vars

\* pc2 = pc.clone()
Clone ==
    /\ Idle /\ last.op \in PathOps \cup {"init"}
    /\ todo = <<<<>>, <<>>>>
    /\ LET r == clone(pc)
       IN  /\ pc2' = IF r.raised THEN pc2 ELSE r.self
           /\ last' = Call("clone", <<>>, EmptyAttr, r.raised, pc)
    /\ UNCHANGED <<pc, sc, removed_paths, todo, nops>>

\* A complex built by add_path and remove_nodes, then cloned.
NextClone ==
    \/ \E path \in Inputs(Nodes, MaxLen) : AddPath(path, EmptyAttr, MaxCloneOps)
    \/ \E node_set \in SUBSET Nodes : RemoveNodes(node_set, MaxCloneOps)
    \/ RemovePath
    \/ Clone

SpecClone == Init /\ [][NextClone]_vars

\* add_path with every sequence of nodes, those with a duplicate included.
NextAnyPath ==
    \E path \in Sequences(Nodes, MaxLen) : AddPath(path, EmptyAttr, MaxAnyOps)

SpecAnyPath == Init /\ [][NextAnyPath]_vars

\* sc = SimplicialComplex(simplices)
ConstructSimplicial(simplices) ==
    /\ last.op = "init" /\ todo = <<<<>>, <<>>>>
    /\ sc' = SimplicialComplex_init(simplices)
    /\ last' = Call("SimplicialComplex", simplices, EmptyAttr, FALSE, pc)
    /\ nops' = nops + 1
    /\ UNCHANGED <<pc, pc2, removed_paths, todo>>

\* A simplicial complex built from a list of simplices drawn from those of
\* docstring Example 1 and their edges.
ExampleSimplices == <<{1, 2, 3}, {2, 3, 5}, {0, 1}>>

ExampleFaces ==
    {simplex \in UNION {SUBSET ExampleSimplices[k] : k \in DOMAIN ExampleSimplices} :
       Cardinality(simplex) >= 2}

NextExample ==
    \E simplices \in Sequences(ExampleFaces, MaxSimplices) : ConstructSimplicial(simplices)

SpecExample == Init /\ [][NextExample]_vars

\* pc = PathComplex(graph, reserve_sequence_order=..., max_rank=max_rank) for
\* the graph with these nodes (in insertion order) and edges
ConstructFromGraph(nodes, edges, max_rank, rev) ==
    /\ last.op = "init" /\ todo = <<<<>>, <<>>>>
    /\ LET r == __init__(GraphArg(nodes, edges), pc.reserve_sequence_order, NoneArg,
                         max_rank, rev)
       IN  /\ pc' = IF r.raised THEN pc ELSE r.self
           /\ last' = Call("PathComplex",
                           [graph |-> GraphArg(nodes, edges), max_rank |-> max_rank],
                           EmptyAttr, r.raised, pc)
    /\ nops' = nops + 1
    /\ UNCHANGED <<pc2, sc, removed_paths, todo>>

\* A path complex built from an undirected graph without self-loops over
\* these nodes, its nodes inserted in ascending or descending order.
GraphNodes == {0, 1, 2, 10}

NextGraph ==
    \E node_set \in (SUBSET GraphNodes) \ {{}}, nodes_rev \in BOOLEAN, rev \in BOOLEAN :
        \E edges \in SUBSET {e \in SUBSET node_set : Cardinality(e) = 2} :
            \E max_rank \in 0 .. MaxGraphRank :
                ConstructFromGraph(IterationOrder(node_set, nodes_rev), edges, max_rank, rev)

SpecGraph == Init /\ [][NextGraph]_vars

\* the record of an operator call: the n-th of the same call in a row
OperatorCall(class, op, rank, signed, index, result, nth) ==
    [op |-> op,
     arg |-> [class |-> class, rank |-> rank, signed |-> signed, index |-> index],
     attr |-> EmptyAttr, raised |-> result.raised, pre |-> pc,
     result |-> result, nth |-> nth]

\* pc.op(rank, signed=signed, index=index), the nth such call in a row
CallPathOperator(op, rank, signed, index, nth) ==
    /\ Idle /\ todo = <<<<>>, <<>>>>
    /\ LET r == call_operator(pc, op, rank, signed, index)
       IN  /\ pc' = r.self
           /\ last' = OperatorCall("PathComplex", op, rank, signed, index, r.result, nth)
    /\ UNCHANGED <<pc2, sc, removed_paths, todo, nops>>

\* sc.op(rank, signed=signed, index=index), the nth such call in a row
CallSimplicialOperator(op, rank, signed, index, nth) ==
    /\ Idle /\ todo = <<<<>>, <<>>>>
    /\ LET r == sc_call_operator(sc, op, rank, signed, index)
       IN  /\ sc' = r.self
           /\ last' = OperatorCall("SimplicialComplex", op, rank, signed, index, r.result, nth)
    /\ UNCHANGED <<pc, pc2, removed_paths, todo, nops>>

\* the call just made, made again
RepeatOperator ==
    /\ last.op \in Operators /\ last.nth = 1
    /\ IF last.arg.class = "PathComplex"
       THEN CallPathOperator(last.op, last.arg.rank, last.arg.signed, last.arg.index, 2)
       ELSE CallSimplicialOperator(last.op, last.arg.rank, last.arg.signed,
                                   last.arg.index, 2)

OperatorRanks == 0 .. 2

\* A complex built by add_path or add_simplex, then an operator call and
\* the same call again.
NextOperators ==
    \/ \E path \in Inputs(Nodes, MaxLen) : AddPath(path, EmptyAttr, MaxOperatorOps)
    \/ \E simplex \in (SUBSET SimplexNodes) \ {{}} :
         nops < MaxOperatorOps /\ AddSimplex(simplex)
    \/ \E op \in Operators, rank \in OperatorRanks, signed \in BOOLEAN :
         last.op \in {"init", "add_path"}
            /\ CallPathOperator(op, rank, signed, ~signed, 1)
    \/ \E op \in Operators, rank \in OperatorRanks, signed \in BOOLEAN :
         last.op \in {"init", "add_simplex"}
            /\ CallSimplicialOperator(op, rank, signed, ~signed, 1)
    \/ RepeatOperator

SpecOperators == Init /\ [][NextOperators]_vars

\* the nodes of the cycle graph of the normalization test
CycleNodes == 0 .. 5

\* its edges, and node 0 on its own
CycleSimplices == {{i, (i + 1) % 6} : i \in CycleNodes} \cup {{0}}

\* sc.normalized_laplacian_matrix(rank)
NormalizedLaplacian(rank) ==
    /\ Idle /\ todo = <<<<>>, <<>>>>
    /\ last.op \in {"init", "add_simplex"}
    /\ last' = [op |-> "normalized_laplacian_matrix", arg |-> rank,
                attr |-> EmptyAttr, pre |-> pc,
                raised |-> normalized_laplacian_matrix(sc, rank).raised,
                result |-> normalized_laplacian_matrix(sc, rank)]
    /\ UNCHANGED <<pc, pc2, sc, removed_paths, todo, nops>>

\* A simplicial complex of edges of the cycle graph, then its normalized
\* Laplacian.
NextNormalized ==
    \/ \E simplex \in CycleSimplices : AddSimplexWithin(simplex, MaxCycleOps)
    \/ \E rank \in 0 .. 1 : NormalizedLaplacian(rank)

SpecNormalized == Init /\ [][NextNormalized]_vars

\* the paths argument of the constructor: None, a list of one path, or a
\* graph over Nodes
ConstructorPaths ==
    {NoneArg}
    \cup {ListArg(<<path>>) : path \in Inputs(Nodes, MaxLen)}
    \cup UNION {{GraphArg(SetToSeq(node_set), edges) :
                   edges \in SUBSET {e \in SUBSET node_set : Cardinality(e) = 2}} :
                node_set \in (SUBSET Nodes) \ {{}}}

\* the allowed_paths argument of the constructor: None or a list of one
\* path of two nodes
ConstructorAllowedPaths ==
    {NoneArg} \cup {ListArg(<<path>>) : path \in {q \in Inputs(Nodes, MaxLen) : Len(q) = 2}}

\* pc = PathComplex(paths, reserve_sequence_order=..., allowed_paths=...)
InitAllowed ==
    /\ \E reserve \in BOOLEAN, rev \in BOOLEAN :
         \E paths \in ConstructorPaths, allowed_paths \in ConstructorAllowedPaths :
            /\ ~__init__(paths, reserve, allowed_paths, 3, rev).raised
            /\ pc = __init__(paths, reserve, allowed_paths, 3, rev).self
            /\ pc2 = PathComplex(reserve)
    /\ sc = SimplicialComplex
    /\ removed_paths = {}
    /\ last = Call("init", <<>>, EmptyAttr, FALSE, pc)
    /\ nops = 0
    /\ todo = <<<<>>, <<>>>>

\* A complex built by the constructor from a list or a graph, with or
\* without the allowed_paths argument, then add_path and remove_nodes.
NextAllowed ==
    \/ \E path \in Inputs(Nodes, MaxLen) : AddPath(path, EmptyAttr, MaxAllowedOps)
    \/ \E node_set \in SUBSET Nodes : RemoveNodes(node_set, MaxAllowedOps)
    \/ RemovePath

SpecAllowed == InitAllowed /\ [][NextAllowed]_vars

\* A path complex built by add_path, or a simplicial complex built by
\* add_simplex; the matrix methods are applied to the states.
NextAdjacency ==
    \/ \E path \in Inputs(Nodes, MaxLen) : AddPath(path, EmptyAttr, MaxAdjacencyOps)
    \/ \E simplex \in (SUBSET SimplexNodes) \ {{}} :
         AddSimplexWithin(simplex, MaxAdjacencyOps)

SpecAdjacency == Init /\ [][NextAdjacency]_vars

\* pc.add_paths_from(paths) for a list of paths
AddPathsFrom(paths) ==
    /\ Idle /\ nops < MaxPathsFromOps /\ last.op \in {"init", "add_paths_from"}
    /\ todo = <<<<>>, <<>>>>
    /\ LET r == add_paths_from(pc, paths)
       IN  /\ pc' = r.self
           /\ last' = Call("add_paths_from", paths, EmptyAttr, r.raised, pc)
    /\ nops' = nops + 1
    /\ UNCHANGED <<pc2, sc, removed_paths, todo>>

\* Lists of paths of one or two nodes, in either direction, handed to
\* add_paths_from.
NextPathsFrom ==
    \E paths \in Sequences(Inputs(Nodes, MaxLen - 1), MaxPathsFrom) : AddPathsFrom(paths)

SpecPathsFrom == Init /\ [][NextPathsFrom]_vars

(***************************************************************************)
(* Properties.                                                             *)
(***************************************************************************)
NoScript == todo = <<<<>>, <<>>>>

\* the paths stored at rank r
PathsOfRank(self, r) ==
    IF r + 1 \in DOMAIN self.faces_dict THEN KeySet(self.faces_dict[r + 1]) ELSE {}

\* the canonical form of a node sequence: reversed when str(first) > str(last)
CanonicalForm(self, seq) ==
    IF ~self.reserve_sequence_order /\ StrGreater(str(seq[1]), str(seq[Len(seq)]))
    THEN Reverse(seq) ELSE seq

ContiguousSubSequences(path) ==
    {SubSeq(path, i, j) : i \in 1 .. Len(path), j \in 1 .. Len(path)} \ {<<>>}

Closed(self) ==
    \A path \in AllPaths(self) : \A sub \in ContiguousSubSequences(path) :
        CanonicalForm(self, sub) \in PathsOfRank(self, Len(sub) - 1)

\* the highest rank whose dict is not empty, -1 when there is none
HighestRank(self) ==
    LET ranks == {r \in 0 .. Len(self.faces_dict) - 1 : PathsOfRank(self, r) # {}}
    IN  IF ranks = {} THEN -1 ELSE CHOOSE r \in ranks : \A q \in ranks : q <= r

AttrOf(self, path) == GetAttr(self.faces_dict[Len(path)], path)

\* C1: between calls, every contiguous sub-sequence of a stored path is
\* stored, in canonical form, in the dict of its rank.
C1_Closure == Idle => Closed(pc)

\* C2: add_path of a path that is stored leaves the keys of every rank dict,
\* max_dim and the allowed paths as they were, and the attributes of every
\* other path; the path's attributes become the old ones merged with the new:
\* new keys added, given keys overwritten, the other keys kept.
C2_ReAddMergesAttributes ==
    (last.op = "add_path" /\ ~last.raised /\ last.arg \in AllPaths(last.pre)) =>
        /\ Len(pc.faces_dict) = Len(last.pre.faces_dict)
        /\ \A r \in DOMAIN pc.faces_dict :
              Keys(pc.faces_dict[r]) = Keys(last.pre.faces_dict[r])
        /\ shape(pc) = shape(last.pre)
        /\ dim(pc) = dim(last.pre)
        /\ pc.allowed_paths = last.pre.allowed_paths
        /\ \A path \in AllPaths(pc) \ {last.arg} : AttrOf(pc, path) = AttrOf(last.pre, path)
        /\ DOMAIN AttrOf(pc, last.arg) = DOMAIN AttrOf(last.pre, last.arg) \cup DOMAIN last.attr
        /\ \A k \in DOMAIN last.attr : AttrOf(pc, last.arg)[k] = last.attr[k]
        /\ \A k \in DOMAIN AttrOf(last.pre, last.arg) \ DOMAIN last.attr :
              AttrOf(pc, last.arg)[k] = AttrOf(last.pre, last.arg)[k]

\* a stored path with attributes was added again with attributes that
\* overwrite one key and leave another
C2_Witness ==
    /\ last.op = "add_path" /\ ~last.raised /\ last.arg \in AllPaths(last.pre)
    /\ AttrOf(last.pre, last.arg) = [w |-> 2, c |-> 1]
    /\ last.attr = [w |-> 1]
    /\ AttrOf(pc, last.arg) = [w |-> 1, c |-> 1]

\* C3: between calls, max_dim is the highest rank with a stored path, and -1
\* when nothing is stored.
C3_MaxDimIsHighestRank == Idle => dim(pc) = HighestRank(pc)

\* C4: for a simplicial complex and 2 <= r <= dim, the signed incidence
\* matrices of ranks r - 1 and r are computed and their product is zero.
C4_SimplicialBoundaryOfBoundary ==
    \A r \in 2 .. sc_dim(sc) :
        LET B_minus_1 == sc_incidence_matrix(sc, r - 1, TRUE, FALSE)
            B == sc_incidence_matrix(sc, r, TRUE, FALSE)
        IN  /\ ~B_minus_1.raised /\ ~B.raised
            /\ B_minus_1.matrix.ncols = B.matrix.nrows
            /\ IsZeroMatrix(MatMul(B_minus_1.matrix, B.matrix))

\* a complex with a tetrahedron: the products of ranks 2 and 3 are taken
C4_Witness ==
    /\ sc_dim(sc) = 3
    /\ Cardinality(sc.faces_dict[3]) >= 4
    /\ \E rc \in DOMAIN sc_incidence_matrix(sc, 2, TRUE, FALSE).matrix.entry :
          sc_incidence_matrix(sc, 2, TRUE, FALSE).matrix.entry[rc] = -1

\* C5: for a path complex and 1 <= r <= dim, the signed incidence matrices
\* of ranks r - 1 and r are computed and their product is zero.
C5_PathBoundaryOfBoundary ==
    Idle =>
    \A r \in 1 .. dim(pc) :
        LET B_minus_1 == incidence_matrix(pc, r - 1, TRUE, FALSE)
            B == incidence_matrix(pc, r, TRUE, FALSE)
        IN  /\ ~B_minus_1.raised /\ ~B.raised
            /\ IsZeroMatrix(MatMul(B_minus_1.matrix, B.matrix))

\* C6: after remove_nodes(S) no stored path holds a node of S, and every
\* path without a node of S is stored at its rank with its attributes.
C6_RemoveNodesFrame ==
    (Idle /\ last.op = "remove_nodes" /\ ~last.raised) =>
        /\ \A path \in AllPaths(pc) : SetOf(path) \cap last.arg = {}
        /\ \A path \in AllPaths(last.pre) :
              SetOf(path) \cap last.arg = {} =>
                  /\ path \in PathsOfRank(pc, Len(path) - 1)
                  /\ AttrOf(pc, path) = AttrOf(last.pre, path)

\* a path was removed and a path with attributes was kept
C6_Witness ==
    /\ Idle /\ last.op = "remove_nodes" /\ ~last.raised
    /\ AllPaths(last.pre) \ AllPaths(pc) # {}
    /\ \E path \in AllPaths(pc) : AttrOf(pc, path) # EmptyAttr

\* remove_nodes has deleted the only path of the rank max_dim
RemovesSoleTopPath ==
    /\ Idle /\ last.op = "remove_nodes" /\ ~last.raised
    /\ dim(last.pre) >= 0
    /\ Cardinality(PathsOfRank(last.pre, dim(last.pre))) = 1
    /\ PathsOfRank(pc, dim(last.pre)) = {}

FirstAddGivesRank ==
    (nops = 1 /\ last.op = "add_path" /\ ~last.raised) => dim(pc) = Len(last.arg) - 1

C8_SkeletonRange ==
    Idle =>
    \A rank \in Ranks :
        /\ skeleton(pc, rank).raised <=> ~(0 <= rank /\ rank <= dim(pc))
        /\ sc_skeleton(sc, rank).raised <=> ~(0 <= rank /\ rank <= sc_dim(sc))

\* C9: when the same paths have been inserted into two instances in two
\* orders, skeleton and incidence_matrix with its index maps agree on every
\* rank.
C9_OrderIndependence ==
    NoScript =>
    \A rank \in Ranks :
        /\ skeleton(pc, rank) = skeleton(pc2, rank)
        /\ incidence_matrix(pc, rank, TRUE, TRUE) = incidence_matrix(pc2, rank, TRUE, TRUE)

\* incidence_matrix(0) returned a zero matrix of 0 rows and n columns
IsEmptyBoundary(B, n) ==
    /\ ~B.raised
    /\ B.matrix.nrows = 0 /\ B.matrix.ncols = n
    /\ IsZeroMatrix(B.matrix)

\* C10: with at least one node, incidence_matrix(0) returns the zero matrix
\* with no row and one column per node, for both classes.
C10_RankZeroBoundary ==
    /\ (Idle /\ PathsOfRank(pc, 0) # {}) =>
          IsEmptyBoundary(incidence_matrix(pc, 0, TRUE, FALSE),
                          Cardinality(PathsOfRank(pc, 0)))
    /\ (Len(sc.faces_dict) > 0) =>
          IsEmptyBoundary(sc_incidence_matrix(sc, 0, TRUE, FALSE),
                          Cardinality(sc.faces_dict[1]))

\* C11: between calls, up_laplacian_matrix(rank) raises for every rank
\* outside 0 <= rank < dim and returns a matrix for every rank inside, for
\* both classes.
C11_UpLaplacianRange ==
    Idle =>
    \A rank \in Ranks :
        /\ up_laplacian_matrix(pc, rank, TRUE, FALSE).raised
              <=> ~(0 <= rank /\ rank < dim(pc))
        /\ sc_up_laplacian_matrix(sc, rank, TRUE, FALSE).raised
              <=> ~(0 <= rank /\ rank < sc_dim(sc))

\* the down Laplacian L is transpose(B) @ B for the incidence matrix B
IsDownLaplacianOf(L, B) ==
    /\ ~L.raised /\ ~B.raised
    /\ L.matrix = MatMul(Transpose(B.matrix), B.matrix)

IsSymmetric(A) ==
    /\ A.nrows = A.ncols
    /\ \A rc \in DOMAIN A.entry : A.entry[rc] = A.entry[<<rc[2], rc[1]>>]

\* x^T A x for the vector x with x[i] = 1, x[j] = sign and 0 elsewhere
\* (i # j), and for the unit vector x[i] = 1 (i = j)
QuadraticForm(A, i, j, sign) ==
    IF i = j THEN A.entry[<<i, i>>]
    ELSE A.entry[<<i, i>>] + sign * (A.entry[<<i, j>>] + A.entry[<<j, i>>])
         + A.entry[<<j, j>>]

IsSymmetricPSD(L) ==
    L.raised \/ LET A == L.matrix
                IN  /\ IsSymmetric(A)
                    /\ \A i, j \in 0 .. A.nrows - 1 : \A sign \in {-1, 1} :
                           QuadraticForm(A, i, j, sign) >= 0

C14_HodgeLaplacian ==
    \A rank \in Ranks :
        LET hodge == sc_hodge_laplacian_matrix(sc, rank, TRUE, FALSE)
            up == sc_up_laplacian_matrix(sc, rank, TRUE, FALSE)
            down == sc_down_laplacian_matrix(sc, rank, TRUE, FALSE)
            n == Len(sc_skeleton(sc, rank).val)
        IN  IF 0 <= rank /\ rank <= sc_dim(sc)
            THEN /\ ~hodge.raised
                 /\ hodge.matrix.nrows = n /\ hodge.matrix.ncols = n
                 /\ (rank = 0 /\ sc_dim(sc) > 0) => hodge.matrix = up.matrix
                 /\ (rank = sc_dim(sc) /\ rank > 0) => hodge.matrix = down.matrix
                 /\ (0 < rank /\ rank < sc_dim(sc))
                        => hodge.matrix = MatAdd(down.matrix, up.matrix)
            ELSE hodge.raised

\* co is the transpose of the incidence result inc, with the same index maps
IsCoincidenceOf(co, inc) ==
    /\ ~co.raised
    /\ co.matrix = Transpose(inc.matrix)
    /\ co.row_index = inc.row_index
    /\ co.col_index = inc.col_index

\* C15: between calls, for both classes, every rank at which incidence_matrix
\* returns and every combination of signed and index, coincidence_matrix
\* returns the transpose of that matrix with the same index maps.
C15_CoincidenceIsTranspose ==
    Idle =>
    \A rank \in Ranks : \A signed, index \in BOOLEAN :
        /\ ~incidence_matrix(pc, rank, signed, index).raised
              => IsCoincidenceOf(coincidence_matrix(pc, rank, signed, index),
                                 incidence_matrix(pc, rank, signed, index))
        /\ ~sc_incidence_matrix(sc, rank, signed, index).raised
              => IsCoincidenceOf(sc_coincidence_matrix(sc, rank, signed, index),
                                 sc_incidence_matrix(sc, rank, signed, index))

\* C16: for a simplicial complex and every rank at which incidence_matrix
\* returns, k_hop_incidence_matrix(rank, 0) is incidence_matrix(rank) and
\* k_hop_coincidence_matrix(rank, 0) is coincidence_matrix(rank).
C16_ZeroHopIsIncidence ==
    \A rank \in Ranks :
        LET inc == sc_incidence_matrix(sc, rank, TRUE, FALSE)
            coinc == sc_coincidence_matrix(sc, rank, TRUE, FALSE)
            hop == k_hop_incidence_matrix(sc, rank, 0)
            cohop == k_hop_coincidence_matrix(sc, rank, 0)
        IN  ~inc.raised =>
                /\ ~hop.raised /\ hop.matrix = inc.matrix
                /\ ~cohop.raised /\ cohop.matrix = coinc.matrix

\* C17: after pc2 = pc.clone(), the call has not raised and pc2 holds the
\* same paths at the same ranks as pc.
C17_CloneSamePaths ==
    last.op = "clone" =>
        /\ ~last.raised
        /\ \A r \in 0 .. Len(pc.faces_dict) : PathsOfRank(pc2, r) = PathsOfRank(pc, r)

HasDuplicate(path) == \E i, j \in DOMAIN path : i # j /\ path[i] = path[j]

WrongDirection(self, path) ==
    /\ ~self.reserve_sequence_order
    /\ Len(path) > 1
    /\ StrGreater(str(path[1]), str(path[Len(path)]))

\* C18: add_path with a sequence that has a duplicate node, or (without
\* reserve_sequence_order, more than one node) with str(first) > str(last),
\* raises, and the rank dicts, max_dim and the allowed paths are as before
\* the call.
C18_InvalidPathRaisesUnchanged ==
    (last.op = "add_path" /\ (HasDuplicate(last.arg) \/ WrongDirection(last.pre, last.arg)))
        => /\ last.raised
           /\ pc.faces_dict = last.pre.faces_dict
           /\ pc.max_dim = last.pre.max_dim
           /\ pc.allowed_paths = last.pre.allowed_paths

\* add_path with a duplicate node has raised on a complex that holds paths
C18_Witness ==
    /\ last.op = "add_path" /\ last.raised
    /\ HasDuplicate(last.arg)
    /\ AllPaths(last.pre) # {}

\* C19 as stated: SimplicialComplex([[1, 2, 3], [2, 3, 5], [0, 1]]) has
\* dim 2 and shape [5, 6, 1].
C19_AsClaimed ==
    (last.op = "SimplicialComplex" /\ last.arg = ExampleSimplices)
        => sc_dim(sc) = 2 /\ sc_shape(sc) = <<5, 6, 1>>

\* C19: SimplicialComplex([[1, 2, 3], [2, 3, 5], [0, 1]]) has dim 2 and
\* shape [5, 6, 2]: five nodes, six edges and the two triangles.
C19_ExampleShape ==
    (last.op = "SimplicialComplex" /\ last.arg = ExampleSimplices)
        => sc_dim(sc) = 2 /\ sc_shape(sc) = <<5, 6, 2>>

C19_Witness ==
    /\ last.op = "SimplicialComplex" /\ last.arg = ExampleSimplices
    /\ {1, 2, 3} \in sc.faces_dict[3]

\* the node sequences without a repeated node that follow r edges of graph
SimplePaths(graph, r) ==
    {path \in [1 .. r + 1 -> SetOf(graph.nodes)] :
       /\ \A i, j \in 1 .. r + 1 : i # j => path[i] # path[j]
       /\ \A k \in 1 .. r : {path[k], path[k + 1]} \in graph.edges}

\* C20: after pc = PathComplex(graph, max_rank=m) without
\* reserve_sequence_order, for a graph with a node: the constructor has not
\* raised; for every r >= 1 the paths of skeleton(r) are the canonical forms
\* of the simple paths of the graph with r edges when r <= m and none
\* otherwise, so dim <= m; skeleton(0) is the nodes; the allowed paths are
\* the stored paths; and for the edges (0,1), (1,2) and m = 3,
\* skeleton(2) == [(0, 1, 2)] and dim == 2.
C20_GraphConstruction ==
    (last.op = "PathComplex" /\ ~last.pre.reserve_sequence_order) =>
        LET graph == last.arg.graph
            m == last.arg.max_rank
        IN  /\ ~last.raised
            /\ \A r \in 1 .. Len(graph.nodes) :
                  PathsOfRank(pc, r) =
                     IF r <= m
                     THEN {CanonicalForm(pc, path) : path \in SimplePaths(graph, r)}
                     ELSE {}
            /\ \A r \in 1 .. dim(pc) :
                  /\ ~skeleton(pc, r).raised
                  /\ SetOf(skeleton(pc, r).val) = PathsOfRank(pc, r)
            /\ dim(pc) <= m
            /\ SetOf(skeleton(pc, 0).val) = {<<node>> : node \in SetOf(graph.nodes)}
            /\ pc.allowed_paths = AllPaths(pc)
            /\ (SetOf(graph.nodes) = {0, 1, 2} /\ graph.edges = {{0, 1}, {1, 2}} /\ m = 3)
                  => skeleton(pc, 2).val = <<(<<0, 1, 2>>)>> /\ dim(pc) = 2

\* the index map returned next to a square matrix is the one of the paths
\* of that rank
IsIndexOfRank(self, rank, res) ==
    /\ DOMAIN res.index = SetOf(skeleton(self, rank).val)
    /\ Cardinality(DOMAIN res.index) = res.matrix.nrows
    /\ Cardinality(DOMAIN res.index) = res.matrix.ncols

\* C21: between calls and for every rank at which they return,
\* PathComplex.down_laplacian_matrix(rank, index=True) and
\* coadjacency_matrix(rank, index=True) return the index map of the paths of
\* that rank: its keys are skeleton(rank) and its size is the number of rows
\* and of columns of the matrix.
C21_DownLaplacianIndex ==
    Idle =>
    \A rank \in Ranks :
        /\ ~down_laplacian_matrix(pc, rank, TRUE, TRUE).raised
              => IsIndexOfRank(pc, rank, down_laplacian_matrix(pc, rank, TRUE, TRUE))
        /\ ~coadjacency_matrix(pc, rank, FALSE, TRUE).raised
              => IsIndexOfRank(pc, rank, coadjacency_matrix(pc, rank, FALSE, TRUE))

IsFraction(x, p, q) ==
    /\ x.rad > 0
    /\ (x.num > 0) = (p > 0) /\ (x.num < 0) = (p < 0)
    /\ x.num * x.num * q * q = p * p * x.rad

\* the complex is the cycle graph on CycleNodes
IsCycleGraph(self) ==
    /\ Len(self.faces_dict) = 2
    /\ self.faces_dict[2] = {{i, (i + 1) % 6} : i \in CycleNodes}

\* C23: normalized_laplacian_matrix(0) of the 6-node cycle graph, whose
\* Hodge Laplacian of rank 0 is the graph Laplacian L, is 0.5 on the
\* diagonal, -0.25 at the two cycle neighbours of each row and 0 elsewhere,
\* which is L / 4; and whenever the method returns, every entry is finite
\* and a row whose sum of |L| is 0 has the factor 0, so the row and the
\* column are 0.
C23_NormalizedLaplacian ==
    (last.op = "normalized_laplacian_matrix" /\ ~last.raised) =>
        LET lap == sc_hodge_laplacian_matrix(sc, last.arg, TRUE, FALSE).matrix
            n == last.result.matrix
        IN  /\ \A rc \in DOMAIN n.entry : n.entry[rc].rad > 0
            /\ \A i \in 1 .. lap.nrows :
                 row_sums_of_abs(lap)[i] = 0 =>
                    /\ diags_sqrt_of(lap)[i] = [num |-> 0, rad |-> 1]
                    /\ \A c \in 0 .. lap.ncols - 1 :
                         n.entry[<<i - 1, c>>].num = 0 /\ n.entry[<<c, i - 1>>].num = 0
            /\ (IsCycleGraph(sc) /\ last.arg = 0) =>
                 /\ n.nrows = 6 /\ n.ncols = 6
                 /\ \A rc \in DOMAIN n.entry :
                      /\ IsFraction(n.entry[rc], lap.entry[rc], 4)
                      /\ IF rc[1] = rc[2] THEN IsFraction(n.entry[rc], 1, 2)
                         ELSE IF (rc[1] - rc[2]) % 6 \in {1, 5}
                         THEN IsFraction(n.entry[rc], -1, 4)
                         ELSE IsFraction(n.entry[rc], 0, 1)

\* the normalized Laplacian of the whole cycle graph has been computed
C23_Witness ==
    /\ last.op = "normalized_laplacian_matrix" /\ ~last.raised
    /\ last.arg = 0 /\ IsCycleGraph(sc)

\* the normalized Laplacian of a graph with an isolated node has been
\* computed
C23_WitnessZeroDegree ==
    /\ last.op = "normalized_laplacian_matrix" /\ ~last.raised
    /\ \E i \in 1 .. last.result.matrix.nrows :
         row_sums_of_abs(sc_hodge_laplacian_matrix(sc, last.arg, TRUE, FALSE).matrix)[i] = 0

\* the positions of path whose deletion gives, canonicalized, the face f
DeletionsGiving(self, path, f) ==
    {i \in 0 .. Len(path) - 1 : boundary_path_of(self, path, i) = f}

\* what C24 says the entry of the face f and the path p is
SignedEntry(self, p, f) ==
    IF f \in self.allowed_paths /\ DeletionsGiving(self, p, f) # {}
    THEN MinusOnePow(CHOOSE i \in DeletionsGiving(self, p, f) : TRUE)
    ELSE 0

\* C24: between calls and for 1 <= rank <= dim, the signed
\* PathComplex.incidence_matrix(rank) returns a matrix of shape
\* |skeleton(rank-1)| x |skeleton(rank)| whose entry at (index of face f,
\* index of path p) is (-1)^i when deleting position i of p gives, after
\* canonicalization, f and f is an allowed path, and 0 otherwise; a face that
\* is not allowed raises nothing; the entries are in {-1, 0, 1}; and
\* signed=False returns the element-wise absolute value.
C24_SignedIncidence ==
    Idle =>
    \A rank \in 1 .. dim(pc) :
        LET inc == incidence_matrix(pc, rank, TRUE, TRUE)
            unsigned == incidence_matrix(pc, rank, FALSE, TRUE)
            rows == skeleton(pc, rank - 1).val
            cols == skeleton(pc, rank).val
        IN  /\ ~inc.raised /\ ~unsigned.raised
            /\ inc.matrix.nrows = Len(rows) /\ inc.matrix.ncols = Len(cols)
            /\ \A r \in 1 .. Len(rows), c \in 1 .. Len(cols) :
                 /\ inc.row_index[rows[r]] = r - 1 /\ inc.col_index[cols[c]] = c - 1
                 /\ inc.matrix.entry[<<r - 1, c - 1>>] = SignedEntry(pc, cols[c], rows[r])
                 /\ inc.matrix.entry[<<r - 1, c - 1>>] \in {-1, 0, 1}
                 /\ unsigned.matrix.entry[<<r - 1, c - 1>>]
                       = Abs(inc.matrix.entry[<<r - 1, c - 1>>])

\* C28: between calls, every allowed path is stored in the dict of its
\* rank, so PathComplex.incidence_matrix(rank) raises for no rank
\* 1 <= rank <= dim, also after PathComplex(paths, allowed_paths=...).
C28_AllowedPathsStored ==
    Idle =>
        /\ pc.allowed_paths \subseteq AllPaths(pc)
        /\ \A rank \in 1 .. dim(pc) : ~incidence_matrix(pc, rank, TRUE, TRUE).raised

\* C27: in every state reached by the constructor (from a list or a
\* graph), add_path and remove_nodes, every stored path is an allowed path,
\* so no _remove_path step fails and remove_nodes does not raise.
C27_StoredPathsAllowed ==
    /\ AllPaths(pc) \subseteq pc.allowed_paths
    /\ removed_paths \subseteq AllPaths(pc)
    /\ last.op = "remove_nodes" => ~last.raised

\* remove_nodes has removed the paths of a node from a complex of at least
\* two ranks and left others
C27_Witness ==
    /\ last.op = "remove_nodes" /\ Idle /\ ~last.raised
    /\ dim(last.pre) >= 1
    /\ AllPaths(pc) # {} /\ AllPaths(pc) # AllPaths(last.pre)

\* the ranks at which a Laplacian can return: -1 (where the up Laplacian of
\* a path complex is the empty matrix) up to the largest rank of a path
AdjacencyRanks == -1 .. MaxLen

\* adj is the Laplacian result lap with a zero diagonal; off the diagonal
\* its entries are those of lap, or their absolute values when not signed
IsAdjacencyOf(adj, lap, signed) ==
    /\ ~adj.raised
    /\ adj.matrix.nrows = lap.matrix.nrows /\ adj.matrix.ncols = lap.matrix.ncols
    /\ \A rc \in DOMAIN lap.matrix.entry :
         adj.matrix.entry[rc] =
            IF rc[1] = rc[2] THEN 0
            ELSE IF signed THEN lap.matrix.entry[rc] ELSE Abs(lap.matrix.entry[rc])

\* C25: for both classes and every rank at which the Laplacian returns,
\* adjacency_matrix(rank) (coadjacency_matrix(rank)) with the default
\* signed=False has a zero diagonal and off the diagonal the absolute values
\* of the entries of up_laplacian_matrix(rank) (down_laplacian_matrix(rank));
\* with signed=True the entries off the diagonal are those of the signed
\* Laplacian.
C25_AdjacencyFromLaplacian ==
    Idle =>
    \A rank \in AdjacencyRanks :
        LET up == up_laplacian_matrix(pc, rank, TRUE, FALSE)
            down == down_laplacian_matrix(pc, rank, TRUE, FALSE)
            sc_up == sc_up_laplacian_matrix(sc, rank, TRUE, FALSE)
            sc_down == sc_down_laplacian_matrix(sc, rank, TRUE, FALSE)
        IN  /\ ~up.raised =>
                 \A signed \in BOOLEAN :
                     IsAdjacencyOf(adjacency_matrix(pc, rank, signed, FALSE), up, signed)
            /\ ~down.raised =>
                 \A signed \in BOOLEAN :
                     IsAdjacencyOf(coadjacency_matrix(pc, rank, signed, FALSE), down, signed)
            /\ ~sc_up.raised =>
                 \A signed \in BOOLEAN :
                     IsAdjacencyOf(sc_adjacency_matrix(sc, rank, signed, FALSE),
                                   sc_up, signed)
            /\ ~sc_down.raised =>
                 \A signed \in BOOLEAN :
                     IsAdjacencyOf(sc_coadjacency_matrix(sc, rank, signed, FALSE),
                                   sc_down, signed)

\* a path complex whose up Laplacian of rank 0 has a positive diagonal and a
\* negative entry off it
C25_Witness ==
    /\ Idle /\ ~up_laplacian_matrix(pc, 0, TRUE, FALSE).raised
    /\ \E rc \in DOMAIN up_laplacian_matrix(pc, 0, TRUE, FALSE).matrix.entry :
         /\ rc[1] # rc[2]
         /\ up_laplacian_matrix(pc, 0, TRUE, FALSE).matrix.entry[rc] < 0
         /\ up_laplacian_matrix(pc, 0, TRUE, FALSE).matrix.entry[<<rc[1], rc[1]>>] > 0
         /\ adjacency_matrix(pc, 0, FALSE, FALSE).matrix.entry[rc] > 0

\* a simplicial complex whose down Laplacian of rank 1 has a negative entry
\* off the diagonal
C25_WitnessSimplicial ==
    /\ ~sc_down_laplacian_matrix(sc, 1, TRUE, FALSE).raised
    /\ \E rc \in DOMAIN sc_down_laplacian_matrix(sc, 1, TRUE, FALSE).matrix.entry :
         /\ rc[1] # rc[2]
         /\ sc_down_laplacian_matrix(sc, 1, TRUE, FALSE).matrix.entry[rc] < 0
         /\ sc_coadjacency_matrix(sc, 1, FALSE, FALSE).matrix.entry[rc] > 0

\* C26: when add_paths_from(paths) raises because a path of the collection
\* is not valid, the complex is as it was before the call: no path of the
\* collection has been added.
C26_AddPathsFromAtomic ==
    (last.op = "add_paths_from" /\ last.raised) => pc = last.pre

\* the instance after _remove_path on the paths of the sequence, one after
\* the other
RECURSIVE RemovedInOrder(_, _)
RemovedInOrder(self, paths) ==
    IF paths = <<>> THEN self
    ELSE RemovedInOrder(_remove_path(self, Head(paths)).self, Tail(paths))

\* C29: when remove_nodes(S) has returned, the complex (rank dicts, allowed
\* paths and max_dim) is the one that removing the collected paths in one
\* fixed order gives, whatever the order the set was iterated in; so dim
\* does not depend on that order.
C29_RemoveNodesOrderIndependent ==
    (Idle /\ last.op = "remove_nodes" /\ ~last.raised) =>
        LET fixed == RemovedInOrder(last.pre,
                                    SetToSeq(collect_removed_paths(last.pre, last.arg)))
        IN  /\ pc = fixed
            /\ dim(pc) = dim(fixed)

\* C30: in every state of a PathComplex with reserve_sequence_order False
\* reached by add_path and remove_nodes, every stored path of more than one
\* node has no node twice and str(first node) <= str(last node), and no
\* stored path is the reversal of another stored path.
C30_CanonicalPaths ==
    ~pc.reserve_sequence_order =>
        \A path \in AllPaths(pc) :
            Len(path) > 1 =>
                /\ Len(path) = Cardinality(SetOf(path))
                /\ ~StrGreater(str(path[1]), str(path[Len(path)]))
                /\ Reverse(path) \notin AllPaths(pc)

====
